---- MODULE Spec2Model ----
(***************************************************************************)
(* India tax regime comparison (src/tax_calculator.py, src/variables.py).  *)
(*                                                                         *)
(* Representation of numbers.  The program computes in floating point; the *)
(* model computes the same expressions exactly, in integers:               *)
(*   - amounts of income, allowances, deductions and limits are whole      *)
(*     rupees, as they are written in the source;                          *)
(*   - every rate r of the source (0.05, 0.14, 0.04, ...) is the whole     *)
(*     percent 100 * r (5, 14, 4, ...);                                    *)
(*   - the slab tax is a sum of products rupees * rate, so it is in paise  *)
(*     (1/100 rupee) here; every amount derived from it (tax_on_income,    *)
(*     rebate_87a, tax_after_rebate, surcharge, cess, total_tax) is in     *)
(*     paise as well, and a rupee limit compared with one is scaled by     *)
(*     Paise;                                                              *)
(*   - float('inf') is the largest representable integer.                  *)
(* The inputs are drawn from sets on which every product and quotient of   *)
(* the pipeline is a whole number of these units (ExactArithmetic), and on *)
(* which no amount reaches 2^31 paise (a total tax of Rs 2.1 crore).       *)
(***************************************************************************)
EXTENDS Integers, Sequences, FiniteSets, TLC

VARIABLES
    v,                              \* module `variables`: the input record
    LIMITS,                         \* tax_calculator.LIMITS
    NEW_REGIME_SLABS,               \* the four slab tables
    OLD_REGIME_SLABS_BELOW_60,
    OLD_REGIME_SLABS_SENIOR,
    OLD_REGIME_SLABS_SUPER_SENIOR,
    results,                        \* the Breakdowns calculate_tax returned, in call order
    call,                           \* the last direct call of a calculator and its result
    pc,                             \* where the script main.py is
    printed                         \* what main() has printed

tables == <<NEW_REGIME_SLABS, OLD_REGIME_SLABS_BELOW_60,
            OLD_REGIME_SLABS_SENIOR, OLD_REGIME_SLABS_SUPER_SENIOR>>
vars == <<v, LIMITS, tables, results, call, pc, printed>>

----------------------------------------------------------------------------
(* Arithmetic *)

inf == 2147483647

Paise(rupees) == 100 * rupees

Min2(a, b) == IF b < a THEN b ELSE a
Max2(a, b) == IF b > a THEN b ELSE a
Min3(a, b, c) == Min2(Min2(a, b), c)

\* x * (p / 100), the product of an amount and a rate given in percent
PctOf(p, x) == (x \div 100) * p + ((x % 100) * p) \div 100

\* whether PctOf(p, x) is the exact product
PctExact(p, x) == ((x % 100) * p) % 100 = 0

----------------------------------------------------------------------------
(* Constant tables, tax_calculator.py lines 18-109 *)

NewRegimeSlabsLiteral ==
    << <<400000, 0>>, <<800000, 5>>, <<1200000, 10>>, <<1600000, 15>>,
       <<2000000, 20>>, <<2400000, 25>>, <<inf, 30>> >>

OldRegimeSlabsBelow60Literal ==
    << <<250000, 0>>, <<500000, 5>>, <<1000000, 20>>, <<inf, 30>> >>

OldRegimeSlabsSeniorLiteral ==
    << <<300000, 0>>, <<500000, 5>>, <<1000000, 20>>, <<inf, 30>> >>

OldRegimeSlabsSuperSeniorLiteral ==
    << <<500000, 0>>, <<1000000, 20>>, <<inf, 30>> >>

LimitsLiteral ==
    [ standard_deduction_old |-> 50000,
      standard_deduction_new |-> 75000,
      gratuity_old |-> 2000000,
      gratuity_new |-> 500000,
      leave_encashment |-> 2500000,
      children_education_per_child_monthly |-> 100,
      hostel_per_child_monthly |-> 300,
      max_children_for_exemption |-> 2,
      transport_disabled_monthly |-> 3200,
      meal_per_meal |-> 50,
      home_loan_interest_self_occupied |-> 200000,
      employer_contribution_combined |-> 750000,
      rebate_87a_old_limit |-> 500000,
      rebate_87a_old_amount |-> 12500,
      rebate_87a_new_limit |-> 1200000,
      rebate_87a_new_amount |-> 60000,
      surcharge_50l |-> 5000000,
      surcharge_1cr |-> 10000000,
      surcharge_2cr |-> 20000000,
      surcharge_5cr |-> 50000000,
      cess_rate |-> 4 ]
    @@ ( "80c_limit" :> 150000 )
    @@ ( "80ccd_1b_limit" :> 50000 )
    @@ ( "80ccd_2_percent" :> 14 )
    @@ ( "80d_self_normal" :> 25000 )
    @@ ( "80d_self_senior" :> 50000 )
    @@ ( "80d_parents_normal" :> 25000 )
    @@ ( "80d_parents_senior" :> 50000 )
    @@ ( "80d_preventive" :> 5000 )
    @@ ( "80dd_normal" :> 75000 )
    @@ ( "80dd_severe" :> 125000 )
    @@ ( "80ddb_normal" :> 40000 )
    @@ ( "80ddb_senior" :> 100000 )
    @@ ( "80ee_limit" :> 50000 )
    @@ ( "80eea_limit" :> 150000 )
    @@ ( "80eeb_limit" :> 150000 )
    @@ ( "80gg_monthly" :> 5000 )
    @@ ( "80tta_limit" :> 10000 )
    @@ ( "80ttb_limit" :> 50000 )
    @@ ( "80u_normal" :> 75000 )
    @@ ( "80u_severe" :> 125000 )

----------------------------------------------------------------------------
(* Name-to-amount mappings (Python dicts) *)

EmptyDict == [k \in {} |-> 0]

\* d[key] = value executed only when cond holds
Put(d, cond, key, value) == IF cond THEN (key :> value) @@ d ELSE d

RECURSIVE SumOver(_, _)
SumOver(d, keys) ==
    IF keys = {} THEN 0
    ELSE LET k == CHOOSE x \in keys : TRUE
         IN  d[k] + SumOver(d, keys \ {k})

\* sum(d.values())
SumValues(d) == SumOver(d, DOMAIN d)

----------------------------------------------------------------------------
(* Section 10 exemptions and gross salary, tax_calculator.py lines 160-331 *)

\* variant: the minimum of the three amounts is not floored at zero
calculate_hra_exemption_no_floor ==
    IF v.hra_received = 0 \/ v.rent_paid_annual = 0 THEN 0
    ELSE LET basic_plus_da == v.basic_salary + v.dearness_allowance
             rent_minus_10_percent == v.rent_paid_annual - PctOf(10, basic_plus_da)
             percent_of_salary == IF v.city_type = "metro"
                                  THEN PctOf(50, basic_plus_da)
                                  ELSE PctOf(40, basic_plus_da)
         IN  Min3(v.hra_received, rent_minus_10_percent, percent_of_salary)

calculate_hra_exemption ==
    IF v.hra_received = 0 \/ v.rent_paid_annual = 0 THEN 0
    ELSE LET basic_plus_da == v.basic_salary + v.dearness_allowance
             actual_hra == v.hra_received
             rent_minus_10_percent == v.rent_paid_annual - PctOf(10, basic_plus_da)
             percent_of_salary == IF v.city_type = "metro"
                                  THEN PctOf(50, basic_plus_da)
                                  ELSE PctOf(40, basic_plus_da)
         IN  Max2(0, Min3(actual_hra, rent_minus_10_percent, percent_of_salary))

calculate_gross_salary ==
    LET gross == v.basic_salary + v.dearness_allowance + v.hra_received
                 + v.lta_received + v.conveyance_allowance + v.special_allowance
                 + v.medical_allowance + v.transport_allowance
                 + v.children_education_allowance + v.hostel_allowance
                 + v.helper_allowance + v.uniform_allowance + v.meal_allowance
                 + v.bonus + v.commission + v.overtime_pay + v.gratuity_received
                 + v.leave_encashment_received + v.entertainment_allowance
        employer_total == v.employer_epf_contribution + v.employer_nps_contribution
                          + v.employer_superannuation_contribution
    IN  IF employer_total > LIMITS.employer_contribution_combined
        THEN gross + (employer_total - LIMITS.employer_contribution_combined)
        ELSE gross

\* the transport exemption of a disabled employee, shared by both regimes
transport_exempt == Min2(v.transport_allowance, LIMITS.transport_disabled_monthly * 12)

\* variant: an employee outside government is exempted the limit itself
leave_exempt_whole_limit ==
    IF v.is_government_employee THEN v.leave_encashment_received
    ELSE LIMITS.leave_encashment

\* the leave encashment exemption, shared by both regimes
leave_exempt ==
    IF v.is_government_employee THEN v.leave_encashment_received
    ELSE Min2(v.leave_encashment_received, LIMITS.leave_encashment)

calculate_exemptions_old_regime ==
    LET hra_exempt == calculate_hra_exemption
        lta_exempt == Min2(v.lta_received, v.lta_claimed)
        num_children == Min2(v.number_of_children, LIMITS.max_children_for_exemption)
        education_exempt ==
            Min2(v.children_education_allowance,
                 num_children * LIMITS.children_education_per_child_monthly * 12)
        hostel_exempt ==
            Min2(v.hostel_allowance, num_children * LIMITS.hostel_per_child_monthly * 12)
        helper_exempt == Min2(v.helper_allowance, v.helper_actual_expenses)
        uniform_exempt == Min2(v.uniform_allowance, v.uniform_actual_expenses)
        conveyance_exempt == Min2(v.conveyance_allowance, v.conveyance_actual_expenses)
        meal_exempt ==
            Min2(v.meal_allowance, LIMITS.meal_per_meal * 2 * v.number_of_working_days)
        gratuity_exempt == Min2(v.gratuity_received, LIMITS.gratuity_old)
        e1  == Put(EmptyDict, hra_exempt > 0, "HRA Exemption [10(13A)]", hra_exempt)
        e2  == Put(e1, lta_exempt > 0, "LTA Exemption [10(5)]", lta_exempt)
        e3  == Put(e2, education_exempt > 0, "Children Education [10(14)(ii)]",
                   education_exempt)
        e4  == Put(e3, hostel_exempt > 0, "Hostel Allowance [10(14)(ii)]", hostel_exempt)
        e5  == Put(e4, helper_exempt > 0, "Helper/Driver [10(14)(i)]", helper_exempt)
        e6  == Put(e5, uniform_exempt > 0, "Uniform Allowance [10(14)(i)]", uniform_exempt)
        e7  == Put(e6, conveyance_exempt > 0, "Conveyance [10(14)]", conveyance_exempt)
        e8  == Put(e7, v.is_disabled /\ transport_exempt > 0,
                   "Transport (Disabled) [10(14)]", transport_exempt)
        e9  == Put(e8, meal_exempt > 0, "Meal Voucher Exemption", meal_exempt)
        e10 == Put(e9, gratuity_exempt > 0, "Gratuity [10(10)]", gratuity_exempt)
        e11 == Put(e10, leave_exempt > 0, "Leave Encashment [10(10AA)]", leave_exempt)
    IN  Put(e11, v.other_section_10_exemptions > 0, "Other Section 10 Exemptions",
            v.other_section_10_exemptions)

\* variant: the house rent allowance exemption is kept in the simplified regime
calculate_exemptions_new_regime_with_hra ==
    LET conveyance_exempt == Min2(v.conveyance_allowance, v.conveyance_actual_expenses)
        gratuity_exempt == Min2(v.gratuity_received, LIMITS.gratuity_new)
        e0 == Put(EmptyDict, calculate_hra_exemption > 0, "HRA Exemption [10(13A)]",
                  calculate_hra_exemption)
        e1 == Put(e0, v.is_disabled /\ transport_exempt > 0,
                  "Transport (Disabled) [10(14)]", transport_exempt)
        e2 == Put(e1, conveyance_exempt > 0, "Conveyance (Official) [10(14)]",
                  conveyance_exempt)
        e3 == Put(e2, gratuity_exempt > 0, "Gratuity [10(10)]", gratuity_exempt)
    IN  Put(e3, leave_exempt > 0, "Leave Encashment [10(10AA)]", leave_exempt)

calculate_exemptions_new_regime ==
    LET conveyance_exempt == Min2(v.conveyance_allowance, v.conveyance_actual_expenses)
        gratuity_exempt == Min2(v.gratuity_received, LIMITS.gratuity_new)
        e1 == Put(EmptyDict, v.is_disabled /\ transport_exempt > 0,
                  "Transport (Disabled) [10(14)]", transport_exempt)
        e2 == Put(e1, conveyance_exempt > 0, "Conveyance (Official) [10(14)]",
                  conveyance_exempt)
        e3 == Put(e2, gratuity_exempt > 0, "Gratuity [10(10)]", gratuity_exempt)
    IN  Put(e3, leave_exempt > 0, "Leave Encashment [10(10AA)]", leave_exempt)

----------------------------------------------------------------------------
(* Section 16 deductions, tax_calculator.py lines 334-367 *)

\* variant: the entertainment allowance is deducted for every employee
calculate_section_16_old_regime_entertainment_for_all ==
    LET d1 == ("Standard Deduction [16(ia)]" :> LIMITS.standard_deduction_old)
        d2 == Put(d1, v.professional_tax_paid > 0, "Professional Tax [16(iii)]",
                  Min2(v.professional_tax_paid, 2500))
    IN  Put(d2, v.entertainment_allowance > 0,
            "Entertainment Allowance [16(ii)]",
            Min3(v.entertainment_allowance, v.basic_salary \div 5, 5000))

calculate_section_16_old_regime ==
    LET d1 == ("Standard Deduction [16(ia)]" :> LIMITS.standard_deduction_old)
        d2 == Put(d1, v.professional_tax_paid > 0, "Professional Tax [16(iii)]",
                  Min2(v.professional_tax_paid, 2500))
    IN  Put(d2, v.is_government_employee /\ v.entertainment_allowance > 0,
            "Entertainment Allowance [16(ii)]",
            Min3(v.entertainment_allowance, v.basic_salary \div 5, 5000))

\* variant: the simplified regime is given the legacy standard deduction
calculate_section_16_new_regime_legacy_amount ==
    ("Standard Deduction [16(ia)]" :> LIMITS.standard_deduction_old)

calculate_section_16_new_regime ==
    ("Standard Deduction [16(ia)]" :> LIMITS.standard_deduction_new)

----------------------------------------------------------------------------
(* Income from house property, tax_calculator.py lines 370-414 *)

\* variant: the restriction tests the wrong sign, so that no loss is restricted
restrict_loss_wrong_sign(total_house_property) ==
    IF total_house_property > 200000 THEN 200000 ELSE total_house_property

\* a loss from house property is set off only up to Rs 2 lakh
restrict_loss(total_house_property) ==
    IF total_house_property < -200000 THEN -200000 ELSE total_house_property

\* variant: the pre-construction interest is deducted in the simplified regime too
calculate_income_from_house_property_pre_construction_in_both(regime) ==
    LET self_interest ==
            IF v.home_loan_interest_self_occupied > 0 /\ regime = "old"
            THEN Min2(v.home_loan_interest_self_occupied,
                      LIMITS.home_loan_interest_self_occupied)
            ELSE 0
        k1 == Put(EmptyDict, v.home_loan_interest_self_occupied > 0 /\ regime = "old",
                  "Self-Occupied Interest [24(b)]", 0 - self_interest)
        let_out == v.rental_income_annual > 0
        gross_rent == v.rental_income_annual
        standard_deduction == PctOf(30, gross_rent)
        interest_deduction == v.home_loan_interest_let_out
        let_out_income ==
            IF let_out THEN gross_rent - standard_deduction - interest_deduction ELSE 0
        k2 == Put(k1, let_out, "Rental Income", gross_rent)
        k3 == Put(k2, let_out, "Standard Deduction (30%)", 0 - standard_deduction)
        k4 == Put(k3, let_out /\ interest_deduction > 0, "Let-Out Interest [24(b)]",
                  0 - interest_deduction)
        pre == v.construction_completed /\ v.pre_construction_interest > 0
        pre_construction_yearly == v.pre_construction_interest \div 5
        k5 == Put(k4, pre, "Pre-construction Interest",
                  0 - pre_construction_yearly)
        self_occupied_loss ==
            IF pre THEN self_interest + pre_construction_yearly
            ELSE self_interest
        total_house_property == let_out_income - self_occupied_loss
    IN  [ total   |-> restrict_loss(total_house_property),
          details |-> Put(k5, total_house_property < -200000,
                          "Loss restricted to Rs 2 Lakh", TRUE) ]

calculate_income_from_house_property(regime) ==
    LET self_interest ==
            IF v.home_loan_interest_self_occupied > 0 /\ regime = "old"
            THEN Min2(v.home_loan_interest_self_occupied,
                      LIMITS.home_loan_interest_self_occupied)
            ELSE 0
        k1 == Put(EmptyDict, v.home_loan_interest_self_occupied > 0 /\ regime = "old",
                  "Self-Occupied Interest [24(b)]", 0 - self_interest)
        let_out == v.rental_income_annual > 0
        gross_rent == v.rental_income_annual
        standard_deduction == PctOf(30, gross_rent)
        interest_deduction == v.home_loan_interest_let_out
        let_out_income ==
            IF let_out THEN gross_rent - standard_deduction - interest_deduction ELSE 0
        k2 == Put(k1, let_out, "Rental Income", gross_rent)
        k3 == Put(k2, let_out, "Standard Deduction (30%)", 0 - standard_deduction)
        k4 == Put(k3, let_out /\ interest_deduction > 0, "Let-Out Interest [24(b)]",
                  0 - interest_deduction)
        pre == v.construction_completed /\ v.pre_construction_interest > 0
        pre_construction_yearly == v.pre_construction_interest \div 5
        k5 == Put(k4, pre /\ regime = "old", "Pre-construction Interest",
                  0 - pre_construction_yearly)
        self_occupied_loss ==
            IF pre /\ regime = "old" THEN self_interest + pre_construction_yearly
            ELSE self_interest
        total_house_property == let_out_income - self_occupied_loss
    IN  [ total   |-> restrict_loss(total_house_property),
          details |-> Put(k5, total_house_property < -200000,
                          "Loss restricted to Rs 2 Lakh", TRUE) ]

----------------------------------------------------------------------------
(* Chapter VI-A deductions, tax_calculator.py lines 417-537 *)

\* Section 80CCD(2), the employer's NPS contribution: the same statements in both regimes
deduction_80ccd_2 ==
    LET basic_plus_da == v.basic_salary + v.dearness_allowance
        max_employer_nps == PctOf(LIMITS["80ccd_2_percent"], basic_plus_da)
    IN  Min2(v.employer_nps_contribution, max_employer_nps)

\* variant: the pool has nine fields; scss_investment, other_80c and
\* pension_fund_contribution are left out
total_80c_nine_fields ==
    v.epf_contribution_employee + v.ppf_contribution + v.life_insurance_premium
    + v.elss_investment + v.nsc_investment + v.sukanya_samriddhi
    + v.tax_saver_fd + v.tuition_fees + v.home_loan_principal
    + Min2(v.employee_nps_contribution, LIMITS["80c_limit"])

\* the amounts pooled under Section 80C (80C, 80CCC and 80CCD(1)), before the limit
total_80c ==
    v.epf_contribution_employee + v.ppf_contribution + v.life_insurance_premium
    + v.elss_investment + v.nsc_investment + v.sukanya_samriddhi
    + v.tax_saver_fd + v.tuition_fees + v.home_loan_principal
    + v.scss_investment + v.other_80c + v.pension_fund_contribution
    + Min2(v.employee_nps_contribution, LIMITS["80c_limit"])

\* variant: the savings-interest deduction is given at every age
eligible_80tta_at_any_age == v.savings_account_interest > 0

\* the tests that guard Section 80TTA and Section 80TTB
eligible_80tta == v.age_category = "below_60" /\ v.savings_account_interest > 0
eligible_80ttb == v.age_category # "below_60" /\ v.senior_citizen_interest_income > 0

\* variant: the deduction for a disabled dependent is the expenses up to the limit
deduction_80dd_capped_expenses ==
    Min2(v.disabled_dependent_expenses,
         IF v.is_severe_disability THEN LIMITS["80dd_severe"] ELSE LIMITS["80dd_normal"])

\* the amount assigned to Section 80DD when there are expenses for a disabled dependent
deduction_80dd ==
    IF v.is_severe_disability THEN LIMITS["80dd_severe"] ELSE LIMITS["80dd_normal"]

\* variant: the rent deduction does not ask whether a house rent allowance is received
eligible_80gg_with_hra == v.rent_paid_no_hra > 0

\* the test that guards Section 80GG
eligible_80gg == v.rent_paid_no_hra > 0 /\ v.hra_received = 0

calculate_chapter_via_old_regime ==
    LET deduction_80c == Min2(total_80c, LIMITS["80c_limit"])
        deduction_80ccd_1b ==
            Min2(v.additional_nps_contribution, LIMITS["80ccd_1b_limit"])
        senior == v.age_category # "below_60"
        self_limit == IF senior THEN LIMITS["80d_self_senior"]
                      ELSE LIMITS["80d_self_normal"]
        deduction_80d_self == Min2(v.health_insurance_self, self_limit)
        parents_limit == IF v.parents_are_senior_citizen
                         THEN LIMITS["80d_parents_senior"]
                         ELSE LIMITS["80d_parents_normal"]
        deduction_80d_parents == Min2(v.health_insurance_parents, parents_limit)
        preventive == Min2(v.preventive_health_checkup, LIMITS["80d_preventive"])
        total_80d == deduction_80d_self + deduction_80d_parents
        limit_80ddb == IF senior THEN LIMITS["80ddb_senior"] ELSE LIMITS["80ddb_normal"]
        d1  == Put(EmptyDict, deduction_80c > 0, "Section 80C", deduction_80c)
        d2  == Put(d1, deduction_80ccd_1b > 0, "Section 80CCD(1B) - Add. NPS",
                   deduction_80ccd_1b)
        d3  == Put(d2, deduction_80ccd_2 > 0, "Section 80CCD(2) - Employer NPS",
                   deduction_80ccd_2)
        d4  == Put(d3, total_80d > 0, "Section 80D - Health Insurance", total_80d)
        d5  == Put(d4, v.disabled_dependent_expenses > 0,
                   "Section 80DD - Disabled Dependent", deduction_80dd)
        d6  == Put(d5, v.medical_treatment_expenses > 0,
                   "Section 80DDB - Medical Treatment",
                   Min2(v.medical_treatment_expenses, limit_80ddb))
        d7  == Put(d6, v.education_loan_interest > 0, "Section 80E - Education Loan",
                   v.education_loan_interest)
        d8  == Put(d7, v.home_loan_interest_80ee > 0, "Section 80EE - Home Loan",
                   Min2(v.home_loan_interest_80ee, LIMITS["80ee_limit"]))
        d9  == Put(d8, v.home_loan_interest_80eea > 0, "Section 80EEA - Add. Home Loan",
                   Min2(v.home_loan_interest_80eea, LIMITS["80eea_limit"]))
        d10 == Put(d9, v.ev_loan_interest > 0, "Section 80EEB - EV Loan",
                   Min2(v.ev_loan_interest, LIMITS["80eeb_limit"]))
        d11 == Put(d10, v.donations_100_percent > 0, "Section 80G - Donations (100%)",
                   v.donations_100_percent)
        d12 == Put(d11, v.donations_50_percent > 0, "Section 80G - Donations (50%)",
                   PctOf(50, v.donations_50_percent))
        d13 == Put(d12, eligible_80gg,
                   "Section 80GG - Rent",
                   Min2(v.rent_paid_no_hra, LIMITS["80gg_monthly"] * 12))
        d14 == Put(d13, eligible_80tta,
                   "Section 80TTA - Savings Interest",
                   Min2(v.savings_account_interest, LIMITS["80tta_limit"]))
        d15 == Put(d14, eligible_80ttb,
                   "Section 80TTB - Interest Income",
                   Min2(v.senior_citizen_interest_income, LIMITS["80ttb_limit"]))
    IN  Put(d15, v.self_disability_claim, "Section 80U - Self Disability",
            IF v.self_severe_disability THEN LIMITS["80u_severe"]
            ELSE LIMITS["80u_normal"])

\* variant: the employer's contribution is deducted without the 14% cap
calculate_chapter_via_new_regime_uncapped ==
    Put(EmptyDict, v.employer_nps_contribution > 0, "Section 80CCD(2) - Employer NPS",
        v.employer_nps_contribution)

calculate_chapter_via_new_regime ==
    Put(EmptyDict, deduction_80ccd_2 > 0, "Section 80CCD(2) - Employer NPS",
        deduction_80ccd_2)

----------------------------------------------------------------------------
(* Slab tax, rebate and surcharge, tax_calculator.py lines 540-613 *)

\* the slab table calculate_tax_on_income selects
select_slabs(regime) ==
    IF regime = "new" THEN NEW_REGIME_SLABS
    ELSE IF v.age_category = "super_senior" THEN OLD_REGIME_SLABS_SUPER_SENIOR
    ELSE IF v.age_category = "senior" THEN OLD_REGIME_SLABS_SENIOR
    ELSE OLD_REGIME_SLABS_BELOW_60

\* variant: the part of the income in a slab is not reduced by the previous limit
RECURSIVE slab_loop_whole_income(_, _, _, _, _)
slab_loop_whole_income(slabs, i, taxable_income, previous_limit, tax) ==
    IF i > Len(slabs) \/ taxable_income <= previous_limit THEN tax
    ELSE LET limit == slabs[i][1]
             rate == slabs[i][2]
             taxable_in_slab == Min2(taxable_income, limit)
         IN  slab_loop_whole_income(slabs, i + 1, taxable_income, limit,
                                    tax + taxable_in_slab * rate)

\* variant: the whole income is taxed at the rate of the highest slab it reaches
RECURSIVE slab_loop_flat_rate(_, _, _, _, _)
slab_loop_flat_rate(slabs, i, taxable_income, previous_limit, tax) ==
    IF i > Len(slabs) \/ taxable_income <= previous_limit THEN tax
    ELSE slab_loop_flat_rate(slabs, i + 1, taxable_income, slabs[i][1],
                             taxable_income * slabs[i][2])

\* the for loop over the slabs from its i-th iteration on; the result is in paise
RECURSIVE slab_loop(_, _, _, _, _)
slab_loop(slabs, i, taxable_income, previous_limit, tax) ==
    IF i > Len(slabs) \/ taxable_income <= previous_limit THEN tax
    ELSE LET limit == slabs[i][1]
             rate == slabs[i][2]
             taxable_in_slab == Min2(taxable_income, limit) - previous_limit
         IN  slab_loop(slabs, i + 1, taxable_income, limit, tax + taxable_in_slab * rate)

\* in paise
calculate_tax_on_income(taxable_income, regime) ==
    IF taxable_income <= 0 THEN 0
    ELSE slab_loop(select_slabs(regime), 1, taxable_income, 0, 0)

\* variant: the rebate limits are exclusive
calculate_rebate_87a_exclusive(taxable_income, tax, regime) ==
    IF regime = "new"
    THEN IF taxable_income < LIMITS.rebate_87a_new_limit
         THEN Min2(tax, Paise(LIMITS.rebate_87a_new_amount))
         ELSE 0
    ELSE IF taxable_income < LIMITS.rebate_87a_old_limit
         THEN Min2(tax, Paise(LIMITS.rebate_87a_old_amount))
         ELSE 0

\* tax and the result in paise
calculate_rebate_87a(taxable_income, tax, regime) ==
    IF regime = "new"
    THEN IF taxable_income <= LIMITS.rebate_87a_new_limit
         THEN Min2(tax, Paise(LIMITS.rebate_87a_new_amount))
         ELSE 0
    ELSE IF taxable_income <= LIMITS.rebate_87a_old_limit
         THEN Min2(tax, Paise(LIMITS.rebate_87a_old_amount))
         ELSE 0

\* variant: an income equal to a threshold already takes the higher rate
surcharge_rate_inclusive(taxable_income, regime) ==
    IF regime = "new"
    THEN IF taxable_income >= LIMITS.surcharge_2cr THEN 25
         ELSE IF taxable_income >= LIMITS.surcharge_1cr THEN 15
         ELSE IF taxable_income > LIMITS.surcharge_50l THEN 10
         ELSE 0
    ELSE IF taxable_income >= LIMITS.surcharge_5cr THEN 37
         ELSE IF taxable_income >= LIMITS.surcharge_2cr THEN 25
         ELSE IF taxable_income >= LIMITS.surcharge_1cr THEN 15
         ELSE IF taxable_income > LIMITS.surcharge_50l THEN 10
         ELSE 0

\* the surcharge rate, in percent
surcharge_rate(taxable_income, regime) ==
    IF regime = "new"
    THEN IF taxable_income > LIMITS.surcharge_2cr THEN 25
         ELSE IF taxable_income > LIMITS.surcharge_1cr THEN 15
         ELSE IF taxable_income > LIMITS.surcharge_50l THEN 10
         ELSE 0
    ELSE IF taxable_income > LIMITS.surcharge_5cr THEN 37
         ELSE IF taxable_income > LIMITS.surcharge_2cr THEN 25
         ELSE IF taxable_income > LIMITS.surcharge_1cr THEN 15
         ELSE IF taxable_income > LIMITS.surcharge_50l THEN 10
         ELSE 0

\* tax and the result in paise
calculate_surcharge(taxable_income, tax, regime) ==
    IF taxable_income <= LIMITS.surcharge_50l THEN 0
    ELSE PctOf(surcharge_rate(taxable_income, regime), tax)

----------------------------------------------------------------------------
(* The pipeline, tax_calculator.py lines 112-157 and 616-701 *)

\* effective_tax_rate is a quotient: num / den percent
Rate(num, den) == [num |-> num, den |-> den]

\* TaxBreakdown(regime=regime): every other field at its default
TaxBreakdown(regime) ==
    [ regime |-> regime,
      gross_salary |-> 0,
      exemptions |-> EmptyDict,
      total_exemptions |-> 0,
      income_from_salary |-> 0,
      section_16_deductions |-> EmptyDict,
      total_section_16 |-> 0,
      net_salary_income |-> 0,
      income_from_house_property |-> 0,
      other_income |-> 0,
      gross_total_income |-> 0,
      chapter_via_deductions |-> EmptyDict,
      total_chapter_via |-> 0,
      taxable_income |-> 0,
      tax_on_income |-> 0,
      rebate_87a |-> 0,
      tax_after_rebate |-> 0,
      surcharge |-> 0,
      cess |-> 0,
      total_tax |-> 0,
      effective_tax_rate |-> Rate(0, 1) ]

\* Steps 1 to 16 of calculate_tax: each assigns fields of the breakdown b

step_1_gross_salary(b) == [b EXCEPT !.gross_salary = calculate_gross_salary]

step_2_exemptions(b) ==
    LET exemptions == IF b.regime = "old" THEN calculate_exemptions_old_regime
                      ELSE calculate_exemptions_new_regime
    IN  [b EXCEPT !.exemptions = exemptions, !.total_exemptions = SumValues(exemptions)]

step_3_income_from_salary(b) ==
    [b EXCEPT !.income_from_salary = b.gross_salary - b.total_exemptions]

step_4_section_16(b) ==
    LET deductions == IF b.regime = "old" THEN calculate_section_16_old_regime
                      ELSE calculate_section_16_new_regime
    IN  [b EXCEPT !.section_16_deductions = deductions,
                  !.total_section_16 = SumValues(deductions)]

step_5_net_salary_income(b) ==
    [b EXCEPT !.net_salary_income = Max2(0, b.income_from_salary - b.total_section_16)]

step_6_house_property(b) ==
    [b EXCEPT !.income_from_house_property =
                  calculate_income_from_house_property(b.regime).total]

step_7_other_income(b) ==
    [b EXCEPT !.other_income = v.interest_income_other + v.other_income
                               + v.savings_account_interest]

\* variant: the income from house property is left out of the gross total income
step_8_gross_total_income_no_house(b) ==
    [b EXCEPT !.gross_total_income = b.net_salary_income + b.other_income]

step_8_gross_total_income(b) ==
    [b EXCEPT !.gross_total_income = b.net_salary_income + b.income_from_house_property
                                     + b.other_income]

step_9_chapter_via(b) ==
    LET deductions == IF b.regime = "old" THEN calculate_chapter_via_old_regime
                      ELSE calculate_chapter_via_new_regime
    IN  [b EXCEPT !.chapter_via_deductions = deductions,
                  !.total_chapter_via = SumValues(deductions)]

\* variant: the taxable income is not floored at zero
step_10_taxable_income_no_floor(b) ==
    [b EXCEPT !.taxable_income = b.gross_total_income - b.total_chapter_via]

step_10_taxable_income(b) ==
    [b EXCEPT !.taxable_income = Max2(0, b.gross_total_income - b.total_chapter_via)]

step_11_tax_on_income(b) ==
    [b EXCEPT !.tax_on_income = calculate_tax_on_income(b.taxable_income, b.regime)]

step_12_rebate(b) ==
    LET rebate == calculate_rebate_87a(b.taxable_income, b.tax_on_income, b.regime)
    IN  [b EXCEPT !.rebate_87a = rebate,
                  !.tax_after_rebate = Max2(0, b.tax_on_income - rebate)]

step_13_surcharge(b) ==
    [b EXCEPT !.surcharge =
                  calculate_surcharge(b.taxable_income, b.tax_after_rebate, b.regime)]

\* variant: the cess is taken on the tax after rebate alone
step_14_cess_without_surcharge(b) ==
    [b EXCEPT !.cess = PctOf(LIMITS.cess_rate, b.tax_after_rebate)]

step_14_cess(b) ==
    [b EXCEPT !.cess = PctOf(LIMITS.cess_rate, b.tax_after_rebate + b.surcharge)]

step_15_total_tax(b) ==
    [b EXCEPT !.total_tax = b.tax_after_rebate + b.surcharge + b.cess]

step_16_effective_tax_rate(b) ==
    IF b.gross_salary > 0
    THEN [b EXCEPT !.effective_tax_rate = Rate(b.total_tax, b.gross_salary)]
    ELSE b

calculate_tax(regime) ==
    LET b0  == TaxBreakdown(regime)
        b1  == step_1_gross_salary(b0)
        b2  == step_2_exemptions(b1)
        b3  == step_3_income_from_salary(b2)
        b4  == step_4_section_16(b3)
        b5  == step_5_net_salary_income(b4)
        b6  == step_6_house_property(b5)
        b7  == step_7_other_income(b6)
        b8  == step_8_gross_total_income(b7)
        b9  == step_9_chapter_via(b8)
        b10 == step_10_taxable_income(b9)
        b11 == step_11_tax_on_income(b10)
        b12 == step_12_rebate(b11)
        b13 == step_13_surcharge(b12)
        b14 == step_14_cess(b13)
        b15 == step_15_total_tax(b14)
    IN  step_16_effective_tax_rate(b15)

----------------------------------------------------------------------------
(* The input record, variables.py lines 41-217: every field at its default *)

Defaults ==
    [ age_category |-> "below_60", city_type |-> "non_metro",
      basic_salary |-> 0, dearness_allowance |-> 0,
      hra_received |-> 0, rent_paid_annual |-> 0,
      lta_received |-> 0, lta_claimed |-> 0,
      conveyance_allowance |-> 0, conveyance_actual_expenses |-> 0,
      special_allowance |-> 0, medical_allowance |-> 0, transport_allowance |-> 0,
      is_disabled |-> FALSE,
      children_education_allowance |-> 0, hostel_allowance |-> 0,
      number_of_children |-> 0,
      helper_allowance |-> 0, helper_actual_expenses |-> 0,
      uniform_allowance |-> 0, uniform_actual_expenses |-> 0,
      meal_allowance |-> 0, number_of_working_days |-> 220,
      bonus |-> 0, commission |-> 0, overtime_pay |-> 0,
      gratuity_received |-> 0, leave_encashment_received |-> 0,
      is_government_employee |-> FALSE,
      employer_epf_contribution |-> 0, employer_nps_contribution |-> 0,
      employer_superannuation_contribution |-> 0,
      professional_tax_paid |-> 0, entertainment_allowance |-> 0,
      other_section_10_exemptions |-> 0,
      epf_contribution_employee |-> 0, ppf_contribution |-> 0,
      life_insurance_premium |-> 0, elss_investment |-> 0, nsc_investment |-> 0,
      sukanya_samriddhi |-> 0, tax_saver_fd |-> 0, tuition_fees |-> 0,
      home_loan_principal |-> 0, scss_investment |-> 0, other_80c |-> 0,
      pension_fund_contribution |-> 0, employee_nps_contribution |-> 0,
      additional_nps_contribution |-> 0,
      health_insurance_self |-> 0, health_insurance_parents |-> 0,
      preventive_health_checkup |-> 0, parents_are_senior_citizen |-> FALSE,
      disabled_dependent_expenses |-> 0, is_severe_disability |-> FALSE,
      medical_treatment_expenses |-> 0, education_loan_interest |-> 0,
      home_loan_interest_80ee |-> 0, home_loan_interest_80eea |-> 0,
      ev_loan_interest |-> 0,
      donations_100_percent |-> 0, donations_50_percent |-> 0,
      rent_paid_no_hra |-> 0, savings_account_interest |-> 0,
      senior_citizen_interest_income |-> 0,
      self_disability_claim |-> FALSE, self_severe_disability |-> FALSE,
      home_loan_interest_self_occupied |-> 0, home_loan_interest_let_out |-> 0,
      rental_income_annual |-> 0, pre_construction_interest |-> 0,
      construction_completed |-> FALSE,
      interest_income_other |-> 0, other_income |-> 0,
      tds_deducted |-> 0, advance_tax_paid |-> 0 ]

----------------------------------------------------------------------------
(* Bounds and the sets the inputs are drawn from *)

MaxCalls == 2          \* calls of calculate_tax in one run
MaxUnits == 2          \* an amount of the input record is 0 .. MaxUnits steps
MaxIncomeSteps == 8    \* taxable incomes given to the slab function, in steps

Regimes == {"old", "new"}
Ages == {"below_60", "senior", "super_senior"}
Cities == {"metro", "non_metro"}

Grid(step) == {k * step : k \in 0..MaxUnits}

\* basic salaries around the rebate limits and every surcharge threshold
SalaryLadder ==
    { 0, 300000, 550000, 600000, 1200000, 1275000, 1300000, 2500000,
      5050000, 5075000, 5100000, 10100000, 20100000, 50100000 }

\* a salary and an age only
SalaryInputs ==
    { [Defaults EXCEPT !.basic_salary = b, !.age_category = a] :
        b \in SalaryLadder, a \in Ages }

\* income from other sources, with and without a salary
OtherIncomeInputs ==
    { [Defaults EXCEPT !.basic_salary = b, !.other_income = o,
                       !.interest_income_other = i, !.savings_account_interest = s] :
        b \in {0, 600000}, o \in Grid(3000000), i \in Grid(200000), s \in Grid(8000) }

\* house property: both loans, rent and pre-construction interest
HouseInputs(basics) ==
    { [Defaults EXCEPT !.basic_salary = b,
                       !.home_loan_interest_self_occupied = so,
                       !.home_loan_interest_let_out = lo,
                       !.rental_income_annual = rent,
                       !.pre_construction_interest = pre,
                       !.construction_completed = done] :
        b \in basics, so \in Grid(150000), lo \in Grid(200000), rent \in Grid(120000),
        pre \in Grid(600000), done \in BOOLEAN }

\* house rent allowance: pay, allowance, rent and city
HraInputs ==
    { [Defaults EXCEPT !.basic_salary = b, !.dearness_allowance = da,
                       !.hra_received = hra, !.rent_paid_annual = rent,
                       !.city_type = c] :
        b \in {0, 600000, 1200000, 3000000}, da \in {0, 100000},
        hra \in Grid(150000), rent \in Grid(240000), c \in Cities }

\* a salary with several exemptions and deductions at once
DeductionInputs ==
    { [Defaults EXCEPT !.basic_salary = 1200000,
                       !.lta_received = lta, !.lta_claimed = 30000,
                       !.professional_tax_paid = pt,
                       !.is_government_employee = gov,
                       !.entertainment_allowance = 6000,
                       !.employer_nps_contribution = nps,
                       !.epf_contribution_employee = epf,
                       !.health_insurance_self = 30000] :
        lta \in Grid(20000), pt \in Grid(2000), gov \in BOOLEAN,
        nps \in Grid(100000), epf \in Grid(100000) }

\* every allowance with an exemption in the legacy regime, and the four the
\* simplified regime knows varied across their caps
ExemptionInputs ==
    { [Defaults EXCEPT !.basic_salary = 1200000,
                       !.hra_received = 120000, !.rent_paid_annual = 240000,
                       !.lta_received = 20000, !.lta_claimed = 30000,
                       !.children_education_allowance = 3000, !.number_of_children = 1,
                       !.hostel_allowance = 5000,
                       !.helper_allowance = 10000, !.helper_actual_expenses = 8000,
                       !.uniform_allowance = 5000, !.uniform_actual_expenses = 5000,
                       !.meal_allowance = 30000,
                       !.other_section_10_exemptions = 10000,
                       !.conveyance_actual_expenses = 15000,
                       !.transport_allowance = tr, !.is_disabled = dis,
                       !.conveyance_allowance = conv,
                       !.gratuity_received = grat,
                       !.leave_encashment_received = leave,
                       !.is_government_employee = gov] :
        tr \in Grid(30000), dis \in BOOLEAN, conv \in Grid(10000),
        grat \in Grid(300000), leave \in Grid(1500000), gov \in BOOLEAN }

\* professional tax and entertainment allowance around their caps, with a basic
\* salary whose fifth is below and above the allowance
Section16Inputs ==
    { [Defaults EXCEPT !.basic_salary = b, !.professional_tax_paid = pt,
                       !.entertainment_allowance = ent,
                       !.is_government_employee = gov] :
        b \in {0, 10000, 1200000}, pt \in Grid(2000), ent \in Grid(3000),
        gov \in BOOLEAN }

\* the fields variables.py lists under Section 80C and Section 80CCC
PooledFields ==
    { "epf_contribution_employee", "ppf_contribution", "life_insurance_premium",
      "elss_investment", "nsc_investment", "sukanya_samriddhi", "tax_saver_fd",
      "tuition_fees", "home_loan_principal", "scss_investment", "other_80c",
      "pension_fund_contribution" }

\* Section 80C: every pooled field alone, and all of them together with the
\* employee's NPS contribution below and above its own cap
Section80CInputs ==
    { [Defaults EXCEPT !.basic_salary = 1200000, ![f] = 20000 * k] :
        f \in PooledFields, k \in 1..MaxUnits }
    \cup { [ f \in DOMAIN Defaults |->
               IF f \in PooledFields THEN a
               ELSE IF f = "employee_nps_contribution" THEN nps
               ELSE IF f = "basic_salary" THEN 1200000
               ELSE Defaults[f] ] :
             a \in Grid(10000), nps \in Grid(100000) }

\* savings interest and senior-citizen interest income together, at every age
\* bracket and at one the loader accepts without knowing it
InterestInputs ==
    { [Defaults EXCEPT !.basic_salary = 1200000, !.age_category = a,
                       !.savings_account_interest = s,
                       !.senior_citizen_interest_income = i] :
        a \in Ages \cup {"adult"}, s \in Grid(8000), i \in Grid(30000) }

\* expenses for a disabled dependent below and above both tier amounts
DisabilityInputs ==
    { [Defaults EXCEPT !.basic_salary = 1200000,
                       !.disabled_dependent_expenses = e,
                       !.is_severe_disability = severe] :
        e \in Grid(50000) \cup Grid(100000), severe \in BOOLEAN }

\* no basic salary: the gross salary is made of allowances that are exempt in part
\* or in full, with and without an amount under "other section 10"
AllowanceOnlyInputs ==
    { [Defaults EXCEPT !.lta_received = lta, !.lta_claimed = 30000,
                       !.helper_allowance = helper, !.helper_actual_expenses = 15000,
                       !.gratuity_received = grat,
                       !.leave_encashment_received = leave,
                       !.other_section_10_exemptions = other] :
        lta \in Grid(20000), helper \in Grid(10000), grat \in Grid(300000),
        leave \in Grid(1500000), other \in {0, 10000} }

\* rent paid with and without a house rent allowance, the allowance also negative
RentInputs ==
    { [Defaults EXCEPT !.basic_salary = 1200000, !.hra_received = hra,
                       !.rent_paid_annual = rent, !.rent_paid_no_hra = nohra] :
        hra \in Grid(150000) \cup {-150000}, rent \in {0, 240000},
        nohra \in Grid(50000) }

\* health insurance and medical treatment above the limits of both tiers, at every
\* age bracket and at one the loader accepts without knowing it
AgeInputs ==
    { [Defaults EXCEPT !.basic_salary = 1200000, !.age_category = a,
                       !.health_insurance_self = h,
                       !.medical_treatment_expenses = m] :
        a \in Ages \cup {"adult"}, h \in Grid(30000), m \in Grid(60000) }

\* the fields of the record that hold amounts and counts
NumericFields ==
    DOMAIN Defaults \ { "age_category", "city_type", "is_disabled", "is_government_employee",
                        "parents_are_senior_citizen", "is_severe_disability",
                        "self_disability_claim", "self_severe_disability",
                        "construction_completed" }

\* records the loader accepts although the data model excludes them: get_float takes
\* a negative amount, get_str takes any age bracket and any city type
UncheckedBase ==
    [Defaults EXCEPT !.basic_salary = 1200000, !.hra_received = 150000,
                     !.rent_paid_annual = 240000, !.health_insurance_self = 30000,
                     !.savings_account_interest = 8000]
UncheckedInputs ==
    { [UncheckedBase EXCEPT ![f] = 0 - 50000 * k] :
        f \in {"basic_salary", "hra_received", "other_income",
               "professional_tax_paid", "health_insurance_self"},
        k \in 1..MaxUnits }
    \cup { [UncheckedBase EXCEPT !.age_category = "adult", !.city_type = c] :
             c \in Cities \cup {"town"} }
    \cup { [UncheckedBase EXCEPT !.city_type = "town", !.age_category = a] : a \in Ages }

\* the input records of the pipeline
Inputs ==
    SalaryInputs \cup OtherIncomeInputs \cup HouseInputs({0, 1200000}) \cup HraInputs
    \cup DeductionInputs \cup UncheckedInputs \cup ExemptionInputs
    \cup Section16Inputs \cup Section80CInputs \cup InterestInputs
    \cup DisabilityInputs \cup AllowanceOnlyInputs \cup RentInputs
    \cup AgeInputs

\* the input records of the script: a basic salary or none, and other earnings
MainInputs ==
    { [Defaults EXCEPT !.basic_salary = b, !.bonus = bonus,
                       !.special_allowance = sp, !.hra_received = hra] :
        b \in {0, 600000}, bonus \in Grid(100000), sp \in Grid(50000),
        hra \in Grid(60000) }

\* the input records of the direct calls
FnInputs ==
    { [Defaults EXCEPT !.age_category = a] : a \in Ages }
    \cup HouseInputs({0}) \cup HraInputs

\* the upper bounds of all slab tables
SlabBounds ==
    { 250000, 300000, 400000, 500000, 800000, 1000000, 1200000, 1600000,
      2000000, 2400000 }

\* taxable incomes for the slab function: below, at and above every bound
Incomes ==
    { -100000, -1, 0, 1, 5000000, 50000001 }
    \cup { b + d : b \in SlabBounds, d \in {-1, 0, 1} }
    \cup { k * 350000 : k \in 0..MaxIncomeSteps }

\* taxable incomes and taxes (paise) for the rebate
RebateIncomes ==
    { 0, 499999, 500000, 500001, 1199999, 1200000, 1200001 }
    \cup { 400000 + k * 700000 : k \in 0..MaxUnits }
RebateTaxes ==
    { Paise(t) : t \in {0, 1, 12499, 12500, 12501, 52500, 59999, 60000, 60001} }
    \cup { Paise(k * 45000) : k \in 0..MaxUnits }

\* taxable incomes and taxes (paise) for the surcharge
SurchargeIncomes ==
    { 0, 4999999, 5000000, 5000001, 10000000, 10000001, 20000000, 20000001,
      50000000, 50000001 }
    \cup { k * 30000000 : k \in 0..MaxUnits }
SurchargeTaxes ==
    { Paise(t) : t \in {0, 1, 1312500} } \cup { Paise(k * 7000000) : k \in 0..MaxUnits }

----------------------------------------------------------------------------
(* The state machine *)

NoCall == [fn |-> "none"]

\* the module-level tables as the source writes them
TablesInit ==
    /\ LIMITS = LimitsLiteral
    /\ NEW_REGIME_SLABS = NewRegimeSlabsLiteral
    /\ OLD_REGIME_SLABS_BELOW_60 = OldRegimeSlabsBelow60Literal
    /\ OLD_REGIME_SLABS_SENIOR = OldRegimeSlabsSeniorLiteral
    /\ OLD_REGIME_SLABS_SUPER_SENIOR = OldRegimeSlabsSuperSeniorLiteral

\* the state after the modules are imported: the record is loaded, nothing is computed
Init ==
    /\ v \in Inputs
    /\ TablesInit
    /\ results = <<>>
    /\ call = NoCall
    /\ pc = "imported"
    /\ printed = "nothing"

\* variant: the call for the simplified regime writes its standard deduction into
\* LIMITS, and the exemptions of the Breakdown returned before are its own mapping
CalculateTax_writes_shared_state(regime) ==
    /\ Len(results) < MaxCalls
    /\ results' = Append([ n \in 1..Len(results) |->
                              [results[n] EXCEPT !.exemptions = calculate_tax(regime).exemptions] ],
                         calculate_tax(regime))
    /\ LIMITS' = IF regime = "new"
                 THEN [LIMITS EXCEPT !.standard_deduction_old = LIMITS.standard_deduction_new]
                 ELSE LIMITS
    /\ UNCHANGED <<v, tables, call, pc, printed>>

\* one call calculate_tax(regime); its Breakdown is kept
CalculateTax(regime) ==
    /\ Len(results) < MaxCalls
    /\ results' = Append(results, calculate_tax(regime))
    /\ UNCHANGED <<v, LIMITS, tables, call, pc, printed>>

Next == \E regime \in Regimes : CalculateTax(regime)

Spec == Init /\ [][Next]_vars

\* Direct calls of the calculators: one call on a loaded record

FnInit ==
    /\ v \in FnInputs
    /\ TablesInit
    /\ results = <<>>
    /\ call = NoCall
    /\ pc = "imported"
    /\ printed = "nothing"

CallTaxOnIncome(taxable_income, regime) ==
    /\ call = NoCall
    /\ call' = [ fn |-> "calculate_tax_on_income", taxable_income |-> taxable_income,
                 regime |-> regime,
                 ret |-> calculate_tax_on_income(taxable_income, regime) ]
    /\ UNCHANGED <<v, LIMITS, tables, results, pc, printed>>

CallRebate(taxable_income, tax, regime) ==
    /\ call = NoCall
    /\ call' = [ fn |-> "calculate_rebate_87a", taxable_income |-> taxable_income,
                 tax |-> tax, regime |-> regime,
                 ret |-> calculate_rebate_87a(taxable_income, tax, regime) ]
    /\ UNCHANGED <<v, LIMITS, tables, results, pc, printed>>

CallSurcharge(taxable_income, tax, regime) ==
    /\ call = NoCall
    /\ call' = [ fn |-> "calculate_surcharge", taxable_income |-> taxable_income,
                 tax |-> tax, regime |-> regime,
                 ret |-> calculate_surcharge(taxable_income, tax, regime) ]
    /\ UNCHANGED <<v, LIMITS, tables, results, pc, printed>>

CallHouseProperty(regime) ==
    /\ call = NoCall
    /\ call' = [ fn |-> "calculate_income_from_house_property", regime |-> regime,
                 ret |-> calculate_income_from_house_property(regime) ]
    /\ UNCHANGED <<v, LIMITS, tables, results, pc, printed>>

CallHraExemption ==
    /\ call = NoCall
    /\ call' = [ fn |-> "calculate_hra_exemption", ret |-> calculate_hra_exemption ]
    /\ UNCHANGED <<v, LIMITS, tables, results, pc, printed>>

FnNext ==
    \/ \E i \in Incomes, r \in Regimes : CallTaxOnIncome(i, r)
    \/ \E i \in RebateIncomes, t \in RebateTaxes, r \in Regimes : CallRebate(i, t, r)
    \/ \E i \in SurchargeIncomes, t \in SurchargeTaxes, r \in Regimes :
          CallSurcharge(i, t, r)
    \/ \E r \in Regimes : CallHouseProperty(r)
    \/ CallHraExemption

FnSpec == FnInit /\ [][FnNext]_vars

\* The script main.py: main() on a loaded record

MainInit ==
    /\ v \in MainInputs
    /\ TablesInit
    /\ results = <<>>
    /\ call = NoCall
    /\ pc = "main"
    /\ printed = "nothing"

\* main(), basic_salary == 0: the "No salary data found!" text and the limits, then return
MainNoSalary ==
    /\ pc = "main"
    /\ v.basic_salary = 0
    /\ printed' = "no_salary_data"
    /\ pc' = "done"
    /\ UNCHANGED <<v, LIMITS, tables, results, call>>

\* main() calls compare_regimes(), whose first statement is calculate_tax('old')
CompareRegimesOld ==
    /\ pc = "main"
    /\ v.basic_salary # 0
    /\ results' = Append(results, calculate_tax("old"))
    /\ pc' = "compare_regimes_new"
    /\ UNCHANGED <<v, LIMITS, tables, call, printed>>

\* compare_regimes(): calculate_tax('new'), and the pair is returned to main()
CompareRegimesNew ==
    /\ pc = "compare_regimes_new"
    /\ results' = Append(results, calculate_tax("new"))
    /\ pc' = "print"
    /\ UNCHANGED <<v, LIMITS, tables, call, printed>>

\* main(): print_comparison_table(old_regime, new_regime) and print_tax_slabs()
MainPrint ==
    /\ pc = "print"
    /\ printed' = "comparison"
    /\ pc' = "done"
    /\ UNCHANGED <<v, LIMITS, tables, results, call>>

MainNext == MainNoSalary \/ CompareRegimesOld \/ CompareRegimesNew \/ MainPrint

MainSpec == MainInit /\ [][MainNext]_vars

----------------------------------------------------------------------------
(* Every product with a rate is a whole number of the model's units *)

ExactArithmetic ==
    /\ PctExact(10, v.basic_salary + v.dearness_allowance)
    /\ PctExact(LIMITS["80ccd_2_percent"], v.basic_salary + v.dearness_allowance)
    /\ PctExact(30, v.rental_income_annual)
    /\ PctExact(50, v.donations_50_percent)
    /\ v.basic_salary % 5 = 0
    /\ v.pre_construction_interest % 5 = 0
    /\ \A n \in 1..Len(results) :
          /\ PctExact(surcharge_rate(results[n].taxable_income, results[n].regime),
                      results[n].tax_after_rebate)
          /\ PctExact(LIMITS.cess_rate, results[n].tax_after_rebate + results[n].surcharge)
    /\ call.fn = "calculate_surcharge" =>
          PctExact(surcharge_rate(call.taxable_income, call.regime), call.tax)

----------------------------------------------------------------------------
(* Claims *)

\* the record has basic_salary = b; every other amount is zero and every flag false
OnlyBasicSalary(b) ==
    \E a \in Ages, c \in Cities :
        v = [Defaults EXCEPT !.basic_salary = b, !.age_category = a, !.city_type = c]

\* C1: with basic_salary = 1,200,000 and nothing else, the simplified regime gives
\* taxable_income = 1,125,000 and total_tax = 0.
C1_EndToEnd ==
    OnlyBasicSalary(1200000) =>
        \A n \in 1..Len(results) :
            results[n].regime = "new" =>
                /\ results[n].taxable_income = 1200000 - 75000
                /\ results[n].taxable_income = 1125000
                /\ results[n].total_tax = 0

\* the case of C1 computed: the slab tax of Rs 52,500 is cancelled by the rebate
C1_Witness ==
    /\ OnlyBasicSalary(1200000)
    /\ \E n \in 1..Len(results) :
          /\ results[n].regime = "new"
          /\ results[n].tax_on_income = Paise(52500)
          /\ results[n].rebate_87a = Paise(52500)

\* the slab table of a regime and an age category, as the source writes it
SlabTableOf(regime, age) ==
    IF regime = "new" THEN NewRegimeSlabsLiteral
    ELSE IF age = "super_senior" THEN OldRegimeSlabsSuperSeniorLiteral
    ELSE IF age = "senior" THEN OldRegimeSlabsSeniorLiteral
    ELSE OldRegimeSlabsBelow60Literal

\* the upper bound of the bracket before the i-th
LowerBound(slabs, i) == IF i = 1 THEN 0 ELSE slabs[i - 1][1]

\* the reference: over the brackets the income reaches, the rate times the part of the
\* income in the bracket; in paise
ReferenceTax(slabs, income) ==
    LET reached == { i \in 1..Len(slabs) : income > LowerBound(slabs, i) }
    IN  SumValues([ i \in reached |->
                      slabs[i][2] * (Min2(income, slabs[i][1]) - LowerBound(slabs, i)) ])

\* C2: calculate_tax_on_income equals the reference sum over the brackets for every
\* table, is 0 for every income <= 0, and is 40,000 for 1,000,000 in the simplified
\* regime.
C2_SlabTaxIsReferenceSum ==
    call.fn = "calculate_tax_on_income" =>
        /\ call.ret = ReferenceTax(SlabTableOf(call.regime, v.age_category),
                                   call.taxable_income)
        /\ call.taxable_income <= 0 => call.ret = 0
        /\ call.regime = "new" /\ call.taxable_income = 1000000 =>
              call.ret = Paise(40000)

\* the example of C2 computed
C2_Witness ==
    /\ call.fn = "calculate_tax_on_income"
    /\ call.regime = "new"
    /\ call.taxable_income = 1000000
    /\ call.ret = Paise(40000)

\* C3: for every slab table the slab tax never decreases with the income, is 0 at
\* income 0, has no jump at a bracket's upper bound (the tax there is the tax one rupee
\* below plus the ending bracket's rate on that rupee), and one more rupee of income
\* never adds more than 0.30 rupee of tax.
C3_SlabTaxMonotoneContinuous ==
    call.fn = "calculate_tax_on_income" =>
        LET income == call.taxable_income
            slabs == SlabTableOf(call.regime, v.age_category)
        IN  /\ \A lower \in Incomes :
                  lower <= income =>
                      calculate_tax_on_income(lower, call.regime) <= call.ret
            /\ income = 0 => call.ret = 0
            /\ \A k \in 1..Len(slabs) :
                  income = slabs[k][1] =>
                      call.ret = calculate_tax_on_income(income - 1, call.regime)
                                 + slabs[k][2] * 1
            /\ calculate_tax_on_income(income + 1, call.regime) - call.ret >= 0
            /\ calculate_tax_on_income(income + 1, call.regime) - call.ret <= 30

\* the slab tax at a bracket's upper bound: Rs 12,500 at 500,000 in the legacy table
C3_Witness ==
    /\ call.fn = "calculate_tax_on_income"
    /\ call.regime = "old"
    /\ v.age_category = "below_60"
    /\ call.taxable_income = 500000
    /\ call.ret = Paise(12500)
    /\ calculate_tax_on_income(499999, "old") = Paise(12500) - 5

\* C4: calculate_rebate_87a is min(tax, rebate amount) when the taxable income is at
\* most the regime's limit (legacy 500,000 / 12,500, simplified 1,200,000 / 60,000)
\* and 0 above it; the limit is inclusive and a cliff.
C4_Rebate ==
    call.fn = "calculate_rebate_87a" =>
        LET limit == IF call.regime = "new" THEN 1200000 ELSE 500000
            amount == IF call.regime = "new" THEN 60000 ELSE 12500
        IN  /\ call.ret = IF call.taxable_income <= limit
                          THEN Min2(call.tax, Paise(amount))
                          ELSE 0
            /\ (call.regime = "new" /\ call.taxable_income = 1200000
                  /\ call.tax = Paise(60000)) =>
                  (call.ret = Paise(60000) /\ Max2(0, call.tax - call.ret) = 0)
            /\ (call.regime = "new" /\ call.taxable_income = 1200001) => call.ret = 0

\* the rebate at the limit itself
C4_Witness ==
    /\ call.fn = "calculate_rebate_87a"
    /\ call.regime = "new"
    /\ call.taxable_income = 1200000
    /\ call.tax = Paise(60000)
    /\ call.ret = Paise(60000)

\* the surcharge thresholds and rates (percent) of a regime
SurchargePairs(regime) ==
    { <<5000000, 10>>, <<10000000, 15>>, <<20000000, 25>> }
    \cup (IF regime = "new" THEN {} ELSE { <<50000000, 37>> })

\* the rate of the highest threshold the income strictly exceeds, 0 when there is none
ReferenceSurchargeRate(income, regime) ==
    LET exceeded == { p \in SurchargePairs(regime) : income > p[1] }
    IN  IF exceeded = {} THEN 0
        ELSE (CHOOSE p \in exceeded : \A q \in exceeded : q[1] <= p[1])[2]

\* C5: calculate_surcharge is 0 up to a taxable income of 5,000,000 and otherwise the
\* tax times the rate of the highest threshold strictly exceeded, with nothing else
\* added or taken off; an income equal to a threshold takes the lower rate.
C5_Surcharge ==
    call.fn = "calculate_surcharge" =>
        LET rate == ReferenceSurchargeRate(call.taxable_income, call.regime)
            tax_rupees == call.tax \div 100
        IN  /\ call.tax = Paise(tax_rupees)
            /\ call.ret = rate * tax_rupees
            /\ call.taxable_income <= 5000000 => call.ret = 0
            /\ call.taxable_income = 5000001 => call.ret = 10 * tax_rupees
            /\ call.taxable_income = 10000000 => call.ret = 10 * tax_rupees
            /\ call.taxable_income = 20000000 => call.ret = 15 * tax_rupees
            /\ call.taxable_income = 50000000 => call.ret = 25 * tax_rupees
            /\ call.taxable_income > 50000000 =>
                  call.ret = (IF call.regime = "new" THEN 25 ELSE 37) * tax_rupees

\* the legacy 37% on an income just above five crore
C5_Witness ==
    /\ call.fn = "calculate_surcharge"
    /\ call.regime = "old"
    /\ call.taxable_income = 50000001
    /\ call.tax = Paise(1312500)
    /\ call.ret = 37 * 1312500

\* C6: in both regimes the house-property income the calculator returns, and the one
\* kept in the Breakdown, is never below -200,000.
C6_HousePropertyLossFloor ==
    /\ \A r \in Regimes : calculate_income_from_house_property(r).total >= -200000
    /\ \A n \in 1..Len(results) : results[n].income_from_house_property >= -200000

\* a let-out loss beyond Rs 2 lakh, restricted in the simplified regime's Breakdown
C6_Witness ==
    /\ v.rental_income_annual > 0
    /\ v.rental_income_annual - PctOf(30, v.rental_income_annual)
          - v.home_loan_interest_let_out < -200000
    /\ \E n \in 1..Len(results) :
          /\ results[n].regime = "new"
          /\ results[n].income_from_house_property = -200000

\* C7: the HRA exemption e is max(0, min(hra_received, rent_paid_annual - 10% of
\* (basic + DA), 50% of (basic + DA) if metro else 40%)), so 0 <= e <= hra_received,
\* and it is 0 whenever the rent paid or the HRA received is 0.
C7_HraExemption ==
    call.fn = "calculate_hra_exemption" =>
        LET basic_plus_da == v.basic_salary + v.dearness_allowance
            tenths == IF v.city_type = "metro" THEN 5 ELSE 4
        IN  /\ 0 <= call.ret
            /\ call.ret <= v.hra_received
            /\ 10 * call.ret = Max2(0, Min3(10 * v.hra_received,
                                            10 * v.rent_paid_annual - basic_plus_da,
                                            tenths * basic_plus_da))
            /\ (v.rent_paid_annual = 0 \/ v.hra_received = 0) => call.ret = 0

\* an exemption decided by the rent paid: positive and below the HRA received
C7_Witness ==
    /\ call.fn = "calculate_hra_exemption"
    /\ call.ret > 0
    /\ call.ret < v.hra_received
    /\ 10 * call.ret = 10 * v.rent_paid_annual - (v.basic_salary + v.dearness_allowance)

\* C8: in every Breakdown the three totals are the sums of their mappings and
\* income_from_salary, net_salary_income, gross_total_income and taxable_income are
\* derived from the fields before them as the pipeline states.
C8_BreakdownIncomeIdentities ==
    \A n \in 1..Len(results) :
        LET b == results[n]
        IN  /\ b.total_exemptions = SumValues(b.exemptions)
            /\ b.total_section_16 = SumValues(b.section_16_deductions)
            /\ b.total_chapter_via = SumValues(b.chapter_via_deductions)
            /\ b.income_from_salary = b.gross_salary - b.total_exemptions
            /\ b.net_salary_income = Max2(0, b.income_from_salary - b.total_section_16)
            /\ b.gross_total_income = b.net_salary_income + b.income_from_house_property
                                      + b.other_income
            /\ b.taxable_income = Max2(0, b.gross_total_income - b.total_chapter_via)

\* a Breakdown with a salary and a loss from house property
C8_Witness ==
    \E n \in 1..Len(results) :
        /\ results[n].net_salary_income > 0
        /\ results[n].income_from_house_property < 0
        /\ results[n].gross_total_income
              = results[n].net_salary_income + results[n].income_from_house_property
        /\ results[n].taxable_income > 0

\* C9: in every Breakdown tax_after_rebate = max(0, tax_on_income - rebate_87a), the
\* surcharge is the surcharge rate on tax_after_rebate, cess is 4% of tax_after_rebate
\* plus surcharge, total_tax is their sum, and effective_tax_rate is 0 when
\* gross_salary is 0.
C9_BreakdownTaxIdentities ==
    \A n \in 1..Len(results) :
        LET b == results[n]
            rate == ReferenceSurchargeRate(b.taxable_income, b.regime)
        IN  /\ b.tax_after_rebate = Max2(0, b.tax_on_income - b.rebate_87a)
            /\ PctExact(rate, b.tax_after_rebate)
            /\ b.surcharge = PctOf(rate, b.tax_after_rebate)
            /\ 25 * b.cess = b.tax_after_rebate + b.surcharge
            /\ b.total_tax = b.tax_after_rebate + b.surcharge + b.cess
            /\ b.gross_salary = 0 => b.effective_tax_rate.num = 0

\* no salary, yet a tax with surcharge on other income: the rate stays 0
C9_Witness ==
    \E n \in 1..Len(results) :
        /\ results[n].gross_salary = 0
        /\ results[n].surcharge > 0
        /\ results[n].total_tax > 0
        /\ results[n].effective_tax_rate.num = 0

\* the data model of the input record: amounts and counts are not negative, the age
\* bracket and the city type are among the named values
NonNegative(r) == \A f \in NumericFields : r[f] >= 0
ValidRecord(r) ==
    /\ NonNegative(r)
    /\ r.age_category \in Ages
    /\ r.city_type \in Cities

----------------------------------------------------------------------------
\* C11: a call of calculate_tax changes no field of the input record, no entry of
\* LIMITS and no slab table, and it leaves every Breakdown returned before as it
\* was (no mapping is shared); so after every call each Breakdown kept is the one
\* a first call for its regime returns, whichever regime was computed first.
C11_NoSharedState ==
    [][ /\ v' = v
        /\ LIMITS' = LIMITS
        /\ tables' = tables
        /\ \A n \in 1..Len(results) : results'[n] = results[n]
        /\ \A n \in 1..Len(results') :
              results'[n] = calculate_tax(results'[n].regime) ]_vars

\* both orders of the two regimes have been computed on a record with exemptions
C11_Witness ==
    /\ Len(results) = 2
    /\ results[1].regime = "new"
    /\ results[2].regime = "old"
    /\ results[1].exemptions # results[2].exemptions

----------------------------------------------------------------------------
\* C12: the engine fails fast: a Breakdown is produced only for a record whose amounts
\* are all non-negative and whose age bracket and city type are among the named
\* values; any other record is rejected and yields no Breakdown.
C12_FailFast ==
    results # <<>> => ValidRecord(v)

----------------------------------------------------------------------------
\* C13: in the simplified regime the exemption mapping has no item other than the
\* transport allowance of a disabled employee (only if is_disabled, at most 3,200 x 12),
\* the official conveyance (the smaller of allowance and actual expenses), the
\* gratuity (at most 500,000) and the leave encashment (at most 2,500,000 unless a
\* government employee); the exemptions of the legacy regime alone (HRA, LTA,
\* children education, hostel, helper, uniform, meal, other section 10) never appear,
\* and on a record without negative amounts the total is the sum of the four.
SimplifiedExemptionItems ==
    { "Transport (Disabled) [10(14)]", "Conveyance (Official) [10(14)]",
      "Gratuity [10(10)]", "Leave Encashment [10(10AA)]" }
C13_SimplifiedExemptions ==
    \A n \in 1..Len(results) :
        results[n].regime = "new" =>
            LET e == results[n].exemptions
                transport == IF v.is_disabled THEN Min2(v.transport_allowance, 3200 * 12)
                             ELSE 0
                conveyance == Min2(v.conveyance_allowance, v.conveyance_actual_expenses)
                gratuity == Min2(v.gratuity_received, 500000)
                leave == IF v.is_government_employee THEN v.leave_encashment_received
                         ELSE Min2(v.leave_encashment_received, 2500000)
                Item(key, amount) ==
                    IF amount > 0 THEN key \in DOMAIN e /\ e[key] = amount
                    ELSE key \notin DOMAIN e
            IN  /\ DOMAIN e \subseteq SimplifiedExemptionItems
                /\ Item("Transport (Disabled) [10(14)]", transport)
                /\ Item("Conveyance (Official) [10(14)]", conveyance)
                /\ Item("Gratuity [10(10)]", gratuity)
                /\ Item("Leave Encashment [10(10AA)]", leave)
                /\ NonNegative(v) =>
                      results[n].total_exemptions = transport + conveyance + gratuity + leave

\* a disabled non-government employee with every allowance: the legacy regime exempts
\* the house rent allowance, the simplified regime caps all four of its items
C13_Witness ==
    /\ Len(results) = 2
    /\ results[1].regime = "old"
    /\ "HRA Exemption [10(13A)]" \in DOMAIN results[1].exemptions
    /\ results[2].regime = "new"
    /\ DOMAIN results[2].exemptions = SimplifiedExemptionItems
    /\ results[2].exemptions["Transport (Disabled) [10(14)]"] < v.transport_allowance
    /\ results[2].exemptions["Conveyance (Official) [10(14)]"] < v.conveyance_allowance
    /\ results[2].exemptions["Gratuity [10(10)]"] < v.gratuity_received
    /\ results[2].exemptions["Leave Encashment [10(10AA)]"] < v.leave_encashment_received

----------------------------------------------------------------------------
\* C14: on a record without negative amounts the Section-16 total of the legacy
\* regime is 50,000 + min(professional_tax_paid, 2,500) + (for a government
\* employee) min(entertainment_allowance, basic_salary / 5, 5,000); the total of the
\* simplified regime is exactly 75,000 for every record.
C14_Section16Total ==
    \A n \in 1..Len(results) :
        /\ results[n].regime = "new" => results[n].total_section_16 = 75000
        /\ results[n].regime = "old" /\ NonNegative(v) =>
              /\ 5 * results[n].total_section_16 =
                    5 * 50000 + 5 * Min2(v.professional_tax_paid, 2500)
                    + ( IF v.is_government_employee
                        THEN Min3(5 * v.entertainment_allowance, v.basic_salary, 5 * 5000)
                        ELSE 0 )

\* a government employee above the professional-tax cap whose entertainment
\* deduction is a fifth of the basic salary of 10,000
C14_Witness ==
    /\ Len(results) = 2
    /\ results[1].regime = "old"
    /\ results[2].regime = "new"
    /\ v.is_government_employee
    /\ v.professional_tax_paid > 2500
    /\ v.entertainment_allowance > v.basic_salary \div 5
    /\ results[1].total_section_16 = 50000 + 2500 + 2000

----------------------------------------------------------------------------
\* C15: in both regimes the let-out component of the house property income is the
\* gross rent less 30% of it less the let-out loan interest without a cap, also when
\* rental_income_annual is 0: in the simplified regime, where nothing else enters,
\* the income returned is that component held at the floor of -200,000.
C15_LetOutComponent ==
    call.fn = "calculate_income_from_house_property" =>
        LET component == v.rental_income_annual - PctOf(30, v.rental_income_annual)
                         - v.home_loan_interest_let_out
        IN  call.regime = "new" => call.ret.total = Max2(-200000, component)

----------------------------------------------------------------------------
\* C16: the interest on a self-occupied property (at most 200,000) and a fifth of the
\* pre-construction interest (only when the construction is completed) reduce the
\* house property income in the legacy regime only; in the simplified regime the
\* income is max(-200,000, let-out income) whatever home_loan_interest_self_occupied,
\* pre_construction_interest and construction_completed are, and no item for them
\* is among the details.  The let-out income is rent less 30% less let-out interest
\* where there is rent, and 0 where there is none.
LetOutIncome ==
    IF v.rental_income_annual > 0
    THEN v.rental_income_annual - PctOf(30, v.rental_income_annual)
         - v.home_loan_interest_let_out
    ELSE 0
C16_SelfOccupiedLegacyOnly ==
    call.fn = "calculate_income_from_house_property" =>
        LET self_occupied == Min2(v.home_loan_interest_self_occupied, 200000)
            pre_construction == IF v.construction_completed
                                THEN v.pre_construction_interest \div 5 ELSE 0
        IN  /\ call.regime = "new" =>
                  /\ call.ret.total = Max2(-200000, LetOutIncome)
                  /\ DOMAIN call.ret.details \cap
                        {"Self-Occupied Interest [24(b)]", "Pre-construction Interest"} = {}
            /\ call.regime = "old" =>
                  call.ret.total =
                      Max2(-200000, LetOutIncome - self_occupied - pre_construction)

\* the simplified regime on a record with rent, a self-occupied loan above the cap
\* and completed construction with pre-construction interest: the income is positive
C16_Witness ==
    /\ call.fn = "calculate_income_from_house_property"
    /\ call.regime = "new"
    /\ v.home_loan_interest_self_occupied > 200000
    /\ v.construction_completed
    /\ v.pre_construction_interest > 0
    /\ v.rental_income_annual > 0
    /\ call.ret.total = LetOutIncome
    /\ call.ret.total > 0

----------------------------------------------------------------------------
\* C17: the Section 80C deduction of the legacy regime is min(150,000, S), S being the
\* sum of nine distinct contribution/investment fields plus
\* min(employee_nps_contribution, 150,000): some nine of the pooled fields give the
\* deduction of every legacy Breakdown.
Deduction80C(b) ==
    IF "Section 80C" \in DOMAIN b.chapter_via_deductions
    THEN b.chapter_via_deductions["Section 80C"] ELSE 0
NineOf(fields) == { F \in SUBSET fields : Cardinality(F) = 9 }
C17_NineFields ==
    \A n \in 1..Len(results) :
        results[n].regime = "old" =>
            \E F \in NineOf(PooledFields) :
                Deduction80C(results[n]) =
                    Min2(150000, SumOver(v, F) + Min2(v.employee_nps_contribution, 150000))

\* C17, amended: the Section 80C deduction of the legacy regime is min(150,000, S), S
\* being the sum of the twelve pooled fields (the eleven Section 80C fields and
\* pension_fund_contribution) plus min(employee_nps_contribution, 150,000); it never
\* exceeds 150,000, and the simplified regime has no such item.
C17_TwelveFields ==
    \A n \in 1..Len(results) :
        /\ results[n].regime = "old" =>
              /\ Deduction80C(results[n]) =
                    Min2(150000, v.epf_contribution_employee + v.ppf_contribution
                                 + v.life_insurance_premium + v.elss_investment
                                 + v.nsc_investment + v.sukanya_samriddhi
                                 + v.tax_saver_fd + v.tuition_fees
                                 + v.home_loan_principal + v.scss_investment
                                 + v.other_80c + v.pension_fund_contribution
                                 + Min2(v.employee_nps_contribution, 150000))
              /\ Deduction80C(results[n]) <= 150000
        /\ results[n].regime = "new" =>
              "Section 80C" \notin DOMAIN results[n].chapter_via_deductions

\* all twelve pooled fields at 10,000 and no NPS contribution: the deduction is
\* 120,000, more than any nine of them
C17_Witness ==
    /\ Len(results) = 2
    /\ results[1].regime = "old"
    /\ results[2].regime = "new"
    /\ \A f \in PooledFields : v[f] = 10000
    /\ v.employee_nps_contribution = 0
    /\ Deduction80C(results[1]) = 120000

----------------------------------------------------------------------------
\* C18: the Chapter VI-A mapping of the simplified regime has at most one item, the
\* employer's NPS contribution, min(employer_nps_contribution, 14% of basic pay plus
\* dearness allowance), present when that amount is positive; the legacy mapping of
\* the same record has the item exactly when the simplified one has it, with the
\* same amount.
EmployerNps == "Section 80CCD(2) - Employer NPS"
C18_EmployerNpsInBothRegimes ==
    \A n \in 1..Len(results) :
        LET ch == results[n].chapter_via_deductions
            cap == 14 * (v.basic_salary + v.dearness_allowance)
            amount == Min2(100 * v.employer_nps_contribution, cap)
        IN  /\ results[n].regime = "new" =>
                  /\ DOMAIN ch \subseteq {EmployerNps}
                  /\ results[n].total_chapter_via = SumValues(ch)
            /\ IF amount > 0
               THEN EmployerNps \in DOMAIN ch /\ 100 * ch[EmployerNps] = amount
               ELSE EmployerNps \notin DOMAIN ch
            /\ \A m \in 1..Len(results) :
                  LET other == results[m].chapter_via_deductions
                  IN  /\ EmployerNps \in DOMAIN ch <=> EmployerNps \in DOMAIN other
                      /\ EmployerNps \in DOMAIN ch => ch[EmployerNps] = other[EmployerNps]

\* an employer contribution above 14% of the pay, in both regimes, the legacy one
\* with further deductions
C18_Witness ==
    /\ Len(results) = 2
    /\ results[1].regime = "old"
    /\ results[2].regime = "new"
    /\ DOMAIN results[2].chapter_via_deductions = {EmployerNps}
    /\ results[2].chapter_via_deductions[EmployerNps] < v.employer_nps_contribution
    /\ Cardinality(DOMAIN results[1].chapter_via_deductions) >= 3

----------------------------------------------------------------------------
\* C19: Section 80TTA and Section 80TTB exclude each other: no Breakdown has both,
\* whatever the record and its age bracket; 80TTA is given only below 60 and 80TTB
\* only at any other age bracket, and the simplified regime has neither.
C19_SavingsInterestExclusive ==
    \A n \in 1..Len(results) :
        LET items == DOMAIN results[n].chapter_via_deductions
            tta == "Section 80TTA - Savings Interest" \in items
            ttb == "Section 80TTB - Interest Income" \in items
        IN  /\ ~(tta /\ ttb)
            /\ tta => v.age_category = "below_60"
            /\ ttb => v.age_category # "below_60"
            /\ results[n].regime = "new" => ~tta /\ ~ttb

\* a senior with savings interest and senior-citizen interest income: the legacy
\* Breakdown has Section 80TTB alone
C19_Witness ==
    /\ Len(results) = 1
    /\ results[1].regime = "old"
    /\ v.age_category = "senior"
    /\ v.savings_account_interest > 0
    /\ v.senior_citizen_interest_income > 0
    /\ "Section 80TTB - Interest Income" \in DOMAIN results[1].chapter_via_deductions
    /\ "Section 80TTA - Savings Interest" \notin DOMAIN results[1].chapter_via_deductions

----------------------------------------------------------------------------
\* C20: main() skips the engine exactly when all earnings fields are zero: when it
\* has returned, it has printed the usage guidance and computed nothing if every
\* earnings field is zero, and otherwise it has called compare_regimes and printed
\* the comparison of the two Breakdowns.
EarningsFields ==
    { "basic_salary", "dearness_allowance", "hra_received", "lta_received",
      "conveyance_allowance", "special_allowance", "medical_allowance",
      "transport_allowance", "children_education_allowance", "hostel_allowance",
      "helper_allowance", "uniform_allowance", "meal_allowance", "bonus",
      "commission", "overtime_pay", "gratuity_received",
      "leave_encashment_received", "entertainment_allowance" }
C20_MainSkipsOnlyWithoutEarnings ==
    pc = "done" =>
        IF \A f \in EarningsFields : v[f] = 0
        THEN printed = "no_salary_data" /\ results = <<>>
        ELSE /\ printed = "comparison"
             /\ Len(results) = 2
             /\ results[1].regime = "old"
             /\ results[2].regime = "new"

----------------------------------------------------------------------------
\* C21: in the legacy regime the Section 80DD deduction is the actual
\* disabled_dependent_expenses capped at the tier limit (75,000, or 125,000 for a
\* severe disability), so it never exceeds the expenses entered.
Deduction80DD(b) ==
    IF "Section 80DD - Disabled Dependent" \in DOMAIN b.chapter_via_deductions
    THEN b.chapter_via_deductions["Section 80DD - Disabled Dependent"] ELSE 0
C21_CappedAtExpenses ==
    \A n \in 1..Len(results) :
        results[n].regime = "old" =>
            /\ Deduction80DD(results[n]) =
                  Min2(v.disabled_dependent_expenses,
                       IF v.is_severe_disability THEN 125000 ELSE 75000)
            /\ Deduction80DD(results[n]) <= v.disabled_dependent_expenses

\* C21, amended: in the legacy regime the Section 80DD deduction is the fixed tier
\* amount (75,000, or 125,000 for a severe disability) whenever
\* disabled_dependent_expenses is positive, whatever the expenses are, and there is
\* no such item when the expenses are 0 or in the simplified regime.
C21_FixedTierAmount ==
    \A n \in 1..Len(results) :
        Deduction80DD(results[n]) =
            IF results[n].regime = "old" /\ v.disabled_dependent_expenses > 0
            THEN (IF v.is_severe_disability THEN 125000 ELSE 75000)
            ELSE 0

\* expenses of 50,000 for a dependent with a severe disability: the deduction is
\* 125,000
C21_Witness ==
    /\ Len(results) = 1
    /\ results[1].regime = "old"
    /\ v.is_severe_disability
    /\ v.disabled_dependent_expenses = 50000
    /\ Deduction80DD(results[1]) = 125000

----------------------------------------------------------------------------
\* C22: on a record without negative amounts and with other_section_10_exemptions = 0
\* the exemptions never exceed the gross salary, in both regimes:
\* total_exemptions <= gross_salary and income_from_salary >= 0.
C22_ExemptionsWithinGrossSalary ==
    \A n \in 1..Len(results) :
        NonNegative(v) /\ v.other_section_10_exemptions = 0 =>
            /\ results[n].total_exemptions <= results[n].gross_salary
            /\ results[n].income_from_salary >= 0

\* a gross salary of gratuity, leave encashment, travel and helper allowance alone:
\* the legacy regime exempts all of it, the simplified regime a part
C22_Witness ==
    /\ Len(results) = 2
    /\ results[1].regime = "old"
    /\ results[2].regime = "new"
    /\ v.other_section_10_exemptions = 0
    /\ v.lta_received > 0 /\ v.helper_allowance > 0
    /\ v.gratuity_received > 0 /\ v.leave_encashment_received > 0
    /\ results[1].total_exemptions = results[1].gross_salary
    /\ results[1].income_from_salary = 0
    /\ results[2].total_exemptions > 0
    /\ results[2].income_from_salary > 0

----------------------------------------------------------------------------
\* C23: on a record without negative amounts, in both regimes: taxable_income >= 0,
\* tax_on_income >= 0, 0 <= rebate_87a <= tax_on_income,
\* tax_after_rebate = tax_on_income - rebate_87a >= 0, surcharge >= 0, cess >= 0 and
\* total_tax >= tax_after_rebate >= 0, also when gross_total_income is negative
\* because of a loss from house property.
C23_NoNegativeTax ==
    \A n \in 1..Len(results) :
        NonNegative(v) =>
            LET b == results[n]
            IN  /\ b.taxable_income >= 0
                /\ b.tax_on_income >= 0
                /\ 0 <= b.rebate_87a
                /\ b.rebate_87a <= b.tax_on_income
                /\ b.tax_after_rebate = b.tax_on_income - b.rebate_87a
                /\ b.tax_after_rebate >= 0
                /\ b.surcharge >= 0
                /\ b.cess >= 0
                /\ b.total_tax >= b.tax_after_rebate

\* no salary and a loss from house property: the gross total income is negative,
\* the taxable income and every tax figure are 0
C23_Witness ==
    /\ Len(results) = 1
    /\ NonNegative(v)
    /\ results[1].income_from_house_property < 0
    /\ results[1].gross_total_income < 0
    /\ results[1].taxable_income = 0
    /\ results[1].total_tax = 0

----------------------------------------------------------------------------
\* C24: no legacy Breakdown has both the HRA exemption [10(13A)] and the Section 80GG
\* rent deduction, whatever the record: the HRA exemption appears only with
\* hra_received > 0 and Section 80GG only with hra_received = 0.
C24_HraAnd80GGExclusive ==
    \A n \in 1..Len(results) :
        results[n].regime = "old" =>
            LET hra == "HRA Exemption [10(13A)]" \in DOMAIN results[n].exemptions
                gg == "Section 80GG - Rent" \in DOMAIN results[n].chapter_via_deductions
            IN  /\ ~(hra /\ gg)
                /\ hra => v.hra_received > 0
                /\ gg => v.hra_received = 0

\* rent entered for both purposes: with an allowance the HRA exemption alone appears
C24_Witness ==
    /\ Len(results) = 1
    /\ results[1].regime = "old"
    /\ v.rent_paid_no_hra > 0
    /\ v.rent_paid_annual > 0
    /\ v.hra_received > 0
    /\ "HRA Exemption [10(13A)]" \in DOMAIN results[1].exemptions
    /\ "Section 80GG - Rent" \notin DOMAIN results[1].chapter_via_deductions

----------------------------------------------------------------------------
\* C25: for every value of age_category the legacy computation classifies the
\* taxpayer consistently: wherever the tier shows (a taxable income above 250,000, a
\* health insurance premium above 25,000, medical treatment expenses above 40,000,
\* a Section 80TTA or 80TTB item), the senior limits (80D self 50,000, 80DDB 100,000,
\* 80TTB) go with the slab tax of the senior or super-senior table, and the
\* non-senior limits (25,000, 40,000, 80TTA) with the slab tax of the below-60 table.
ItemOf(b, key) ==
    IF key \in DOMAIN b.chapter_via_deductions THEN b.chapter_via_deductions[key] ELSE 0
C25_AgeTierConsistent ==
    \A n \in 1..Len(results) :
        LET b == results[n]
            senior_slabs ==
                b.tax_on_income \in
                    { ReferenceTax(OldRegimeSlabsSeniorLiteral, b.taxable_income),
                      ReferenceTax(OldRegimeSlabsSuperSeniorLiteral, b.taxable_income) }
            below_60_slabs ==
                b.tax_on_income = ReferenceTax(OldRegimeSlabsBelow60Literal, b.taxable_income)
            parents == Min2(v.health_insurance_parents,
                            IF v.parents_are_senior_citizen THEN 50000 ELSE 25000)
            health == ItemOf(b, "Section 80D - Health Insurance") - parents
            medical == ItemOf(b, "Section 80DDB - Medical Treatment")
            items == DOMAIN b.chapter_via_deductions
        IN  b.regime = "old" /\ b.taxable_income > 250000 /\ NonNegative(v) =>
                /\ senior_slabs \/ below_60_slabs
                /\ v.health_insurance_self > 25000 =>
                      /\ health = Min2(v.health_insurance_self, 50000) <=> senior_slabs
                      /\ health = 25000 <=> below_60_slabs
                /\ v.medical_treatment_expenses > 40000 =>
                      /\ medical = Min2(v.medical_treatment_expenses, 100000) <=> senior_slabs
                      /\ medical = 40000 <=> below_60_slabs
                /\ "Section 80TTB - Interest Income" \in items => senior_slabs
                /\ "Section 80TTA - Savings Interest" \in items => below_60_slabs

====
